---- MODULE Spec2Model ----
(***************************************************************************)
(* Model of src/main.rs: the interval reconstruction (make_trace), the     *)
(* task assembly (create_task), the path combination enumeration           *)
(* (get_all_sets) and the worst-case selection (find_worst) with the       *)
(* report loop of main.                                                     *)
(*                                                                         *)
(* Every function of the program is sequential and pure; each is an        *)
(* operator below, and each specification draws the function's arguments   *)
(* in Init and applies the function in its action.                         *)
(***************************************************************************)
EXTENDS Integers, Sequences, FiniteSets

VARIABLES pc, args, ret, stdout

vars == <<pc, args, ret, stdout>>

(***************************************************************************)
(* Machine integers.  TLC's integers are 32 bits wide, so a usize (64 bits *)
(* on the hosts the analysis runs on) is the pair <<hi, lo>> of its 32-bit *)
(* halves, value hi * 2^32 + lo.  A u32 and a u8 are plain naturals.       *)
(***************************************************************************)
usize_le(a, b) == a[1] < b[1] \/ (a[1] = b[1] /\ a[2] <= b[2])

\* `x as u32` on a usize keeps the low 32 bits.
as_u32(x) == x[2]

\* The usize whose value is the u32 x.
from_u32(x) == <<0, x>>

\* `x as u8` on a u32 keeps the low 8 bits.
as_u8(x) == x % 256

(***************************************************************************)
(* make_trace, main.rs 22-54.  laps is a sequence of <<cycle, label>>.     *)
(* make_trace_loop is the for-loop of lines 29-46 from iteration i on (i   *)
(* is 1-based here, 0-based in the source) with the loop's locals in st;   *)
(* it yields the final `inner`.                                            *)
(***************************************************************************)
RECURSIVE make_trace(_, _, _, _)
RECURSIVE make_trace_loop(_, _, _)
RECURSIVE make_trace_loop_slice_from_open(_, _, _)

\* make_trace_loop with the inner slice taken as laps[start_i..i], the open
\* event included.
make_trace_loop_slice_from_open(laps, i, st) ==
    IF i > Len(laps) THEN st.inner
    ELSE IF ~st.in_inner
    THEN make_trace_loop_slice_from_open(laps, i + 1,
            [st EXCEPT !.current = laps[i][2], !.inner_start = laps[i][1],
                       !.start_i = i, !.in_inner = TRUE])
    ELSE IF st.current = laps[i][2]
    THEN make_trace_loop_slice_from_open(laps, i + 1,
            [st EXCEPT !.inner = Append(@, make_trace(st.inner_start, laps[i][1],
                                            SubSeq(laps, st.start_i, i - 1),
                                            laps[i][2])),
                       !.in_inner = FALSE])
    ELSE make_trace_loop_slice_from_open(laps, i + 1, st)

make_trace_loop(laps, i, st) ==
    IF i > Len(laps) THEN st.inner
    ELSE IF ~st.in_inner
    THEN make_trace_loop(laps, i + 1,
            [st EXCEPT !.current = laps[i][2], !.inner_start = laps[i][1],
                       !.start_i = i, !.in_inner = TRUE])
    ELSE IF st.current = laps[i][2]
    THEN make_trace_loop(laps, i + 1,
            [st EXCEPT !.inner = Append(@, make_trace(st.inner_start, laps[i][1],
                                            SubSeq(laps, st.start_i + 1, i - 1),
                                            laps[i][2])),
                       !.in_inner = FALSE])
    ELSE make_trace_loop(laps, i + 1, st)

make_trace(start, end, laps, id) ==
    [id |-> id,
     start |-> as_u32(start),
     end |-> as_u32(end),
     inner |-> make_trace_loop(laps, 1,
                  [inner |-> <<>>, current |-> "", inner_start |-> <<0, 0>>,
                   in_inner |-> FALSE, start_i |-> 1])]

(***************************************************************************)
(* How a call ends: with a value, or with a Rust panic (an index out of    *)
(* bounds, an unwrap of None) that unwinds through the caller.             *)
(***************************************************************************)
Returned(v) == [outcome |-> "returned", value |-> v]

Panicked == [outcome |-> "panicked", value |-> <<>>]

(***************************************************************************)
(* The arguments make_trace is run on: event lists in chronological order  *)
(* (cycles non-decreasing), as the lock and unlock hooks of analyze_tasks  *)
(* push them, with cycles on both sides of 2^32.                           *)
(***************************************************************************)
MaxLaps == 4

Labels == {"X", "Y"}

Cycles == {<<0, 0>>, <<0, 10>>, <<0, 20>>, <<1, 0>>, <<1, 10>>}

TaskNames == {"alarm0_handler"}

RECURSIVE LapLists(_)

LapLists(n) ==
    IF n = 0 THEN {<<>>}
    ELSE LET shorter == LapLists(n - 1)
         IN  shorter \cup
             {Append(s, <<c, l>>) : s \in {x \in shorter : Len(x) = n - 1},
                                    c \in Cycles, l \in Labels}

NonDecreasing(laps) ==
    \A i \in 1..(Len(laps) - 1) : usize_le(laps[i][1], laps[i + 1][1])

TraceArgs ==
    {[start |-> s, end |-> e, laps |-> l, id |-> n] :
        s \in Cycles, e \in Cycles,
        l \in {x \in LapLists(MaxLaps) : NonDecreasing(x)}, n \in TaskNames}

InitTrace ==
    /\ pc = "make_trace"
    /\ args \in {a \in TraceArgs :
                    /\ usize_le(a.start, a.end)
                    /\ \A i \in 1..Len(a.laps) :
                          usize_le(a.start, a.laps[i][1]) /\ usize_le(a.laps[i][1], a.end)}
    /\ ret = <<>>
    /\ stdout = <<>>

\* One call of make_trace, which has no failing path: it always returns a Trace.
MakeTrace ==
    /\ pc = "make_trace"
    /\ ret' = Returned(make_trace(args.start, args.end, args.laps, args.id))
    /\ pc' = "done"
    /\ UNCHANGED <<args, stdout>>

NextTrace == MakeTrace

SpecTrace == InitTrace /\ [][NextTrace]_vars

(***************************************************************************)
(* Properties of make_trace.                                               *)
(***************************************************************************)
Min(S) == CHOOSE x \in S : \A y \in S : x <= y

\* Some opened label of laps, at some nesting level, has no later event with
\* the same label among the events of its level.
RECURSIVE Unmatched(_)

Unmatched(laps) ==
    IF laps = <<>> THEN FALSE
    ELSE LET closes == {j \in 2..Len(laps) : laps[j][2] = laps[1][2]}
         IN  IF closes = {} THEN TRUE
             ELSE \/ Unmatched(SubSeq(laps, 2, Min(closes) - 1))
                  \/ Unmatched(SubSeq(laps, Min(closes) + 1, Len(laps)))

\* The Interval invariant of a Trace: end >= start, children inside the
\* parent, ordered by start, siblings not overlapping, at every level.
RECURSIVE WellNested(_)

WellNested(t) ==
    /\ t.start <= t.end
    /\ \A k \in 1..Len(t.inner) :
          /\ t.start <= t.inner[k].start
          /\ t.inner[k].end <= t.end
          /\ WellNested(t.inner[k])
    /\ \A k \in 1..(Len(t.inner) - 1) :
          /\ t.inner[k].start <= t.inner[k + 1].start
          /\ t.inner[k].end <= t.inner[k + 1].start

\* C4: make_trace fails explicitly whenever an opened label is never closed
\* at its nesting level (as in [(10,"X"),(20,"Y")]); it then returns no tree.
C4_MalformedIsRejected ==
    (pc = "done" /\ Unmatched(args.laps)) => ret.outcome # "returned"

\* C9: for chronological events within [start, end], start <= end, the tree
\* make_trace returns has the given id, spans [start, end] and satisfies the
\* Interval invariant at every level.
C9_TraceIsWellNested ==
    pc = "done" =>
        /\ ret.outcome = "returned"
        /\ ret.value.id = args.id
        /\ from_u32(ret.value.start) = args.start
        /\ from_u32(ret.value.end) = args.end
        /\ WellNested(ret.value)

\* The same statement for calls whose cycles all fit in 32 bits: the part of
\* C9 that the casts of lines 50-51 leave intact.
Fits32(a) ==
    /\ a.start[1] = 0
    /\ a.end[1] = 0
    /\ \A i \in 1..Len(a.laps) : a.laps[i][1][1] = 0

TraceIsWellNestedBelow2p32 ==
    (pc = "done" /\ Fits32(args)) =>
        /\ ret.value.id = args.id
        /\ from_u32(ret.value.start) = args.start
        /\ from_u32(ret.value.end) = args.end
        /\ WellNested(ret.value)

(***************************************************************************)
(* The nesting round trip.  A Trace is flattened depth first: an open      *)
(* event with the interval's id at its start, its children, a close event  *)
(* with the same id at its end.  The root itself emits no event.           *)
(***************************************************************************)
MaxNodes == 3

TreeCycles == {0, 10, 20}

RECURSIVE Size(_)

\* The number of intervals of a sibling list, descendants included.
Size(forest) ==
    IF forest = <<>> THEN 0
    ELSE 1 + Size(forest[1].inner) + Size(Tail(forest))

RECURSIVE Forests(_, _, _)

\* The well-formed sibling lists within [lo, hi] of at most n intervals in
\* all: every interval has start <= end and its children inside it, and each
\* sibling starts at or after the end of the one before.
Forests(lo, hi, n) ==
    IF n = 0 THEN {<<>>}
    ELSE {<<>>} \cup
         UNION {UNION {{<<[id |-> l, start |-> se[1], end |-> se[2], inner |-> ch]>> \o r :
                            l \in Labels, r \in Forests(se[2], hi, n - 1 - Size(ch))} :
                       ch \in Forests(se[1], se[2], n - 1)} :
                se \in {x \in TreeCycles \X TreeCycles :
                            lo <= x[1] /\ x[1] <= x[2] /\ x[2] <= hi}}

Trees ==
    UNION {{[id |-> n, start |-> se[1], end |-> se[2], inner |-> ch] :
                n \in TaskNames, ch \in Forests(se[1], se[2], MaxNodes)} :
           se \in {x \in TreeCycles \X TreeCycles : x[1] <= x[2]}}

RECURSIVE flatten(_)

flatten(forest) ==
    IF forest = <<>> THEN <<>>
    ELSE <<<<from_u32(forest[1].start), forest[1].id>>>>
         \o flatten(forest[1].inner)
         \o <<<<from_u32(forest[1].end), forest[1].id>>>>
         \o flatten(Tail(forest))

InitRound ==
    /\ pc = "flatten"
    /\ args \in {[tree |-> t, laps |-> <<>>] : t \in Trees}
    /\ ret = <<>>
    /\ stdout = <<>>

Flatten ==
    /\ pc = "flatten"
    /\ args' = [args EXCEPT !.laps = flatten(args.tree.inner)]
    /\ pc' = "make_trace"
    /\ UNCHANGED <<ret, stdout>>

Reconstruct ==
    /\ pc = "make_trace"
    /\ ret' = Returned(make_trace(from_u32(args.tree.start), from_u32(args.tree.end),
                                  args.laps, args.tree.id))
    /\ pc' = "done"
    /\ UNCHANGED <<args, stdout>>

NextRound == Flatten \/ Reconstruct

SpecRound == InitRound /\ [][NextRound]_vars

\* No interval below the root has a proper descendant carrying its own id.
RECURSIVE HasId(_, _)

HasId(forest, l) ==
    \E k \in 1..Len(forest) : forest[k].id = l \/ HasId(forest[k].inner, l)

RECURSIVE NoNestedRepeat(_)

NoNestedRepeat(forest) ==
    \A k \in 1..Len(forest) :
        ~HasId(forest[k].inner, forest[k].id) /\ NoNestedRepeat(forest[k].inner)

\* Every tree the round trip starts from satisfies the Interval invariant.
TreesAreWellNested ==
    WellNested(args.tree)

\* C3 (as claimed): for any well-formed Interval tree, make_trace on the
\* flattened tree returns the tree itself.
C3_RoundTripAnyTree ==
    pc = "done" => ret.value = args.tree

\* C3 (amended): the round trip holds for every well-formed tree in which no
\* interval below the root contains a descendant with its own id.
C3_RoundTripDistinctNesting ==
    (pc = "done" /\ NoNestedRepeat(args.tree.inner)) => ret.value = args.tree

\* C3 witness: a tree with two levels below the root, a second sibling
\* repeating the first one's id, was flattened and reconstructed.
C3_Witness ==
    /\ pc = "done"
    /\ NoNestedRepeat(args.tree.inner)
    /\ Len(args.tree.inner) = 2
    /\ args.tree.inner[1].id = args.tree.inner[2].id
    /\ args.tree.inner[1].inner # <<>>
    /\ ret.value = args.tree

(***************************************************************************)
(* create_task, main.rs 56-59, on the InputTask records of lines 110-116.  *)
(* A path result carries max_cycles (usize) and cycle_laps.                *)
(***************************************************************************)
create_task(symex_result, task) ==
    LET trace == make_trace(<<0, 0>>, symex_result.max_cycles,
                            symex_result.cycle_laps, task.name)
    IN  [id |-> task.name,
         prio |-> as_u8(task.priority),
         deadline |-> task.deadline,
         inter_arrival |-> task.interarival,
         trace |-> trace]

\* The table of get_task_list, main.rs 198-229.
get_task_list ==
    << [name |-> "button_handler", interrupt |-> "IO_IRQ_BANK0",
        priority |-> 2, deadline |-> 125000, interarival |-> 125000],
       [name |-> "debounce_button", interrupt |-> "TIMER_IRQ_1",
        priority |-> 3, deadline |-> 1230000, interarival |-> 37500000],
       [name |-> "alarm0_handler", interrupt |-> "TIMER_IRQ_0",
        priority |-> 1, deadline |-> 1250000, interarival |-> 62500000],
       [name |-> "alarm2_handler", interrupt |-> "TIMER_IRQ_2",
        priority |-> 4, deadline |-> 125000, interarival |-> 125000000] >>

MaxPathLaps == 2

\* u32 values on both sides of 2^8, up to the largest TLC can hold.
U32Samples == {0, 2, 255, 256, 258, 65536, 2147483647}

InputTasks ==
    {[get_task_list[i] EXCEPT !.priority = p, !.deadline = d, !.interarival = a] :
        i \in 1..Len(get_task_list), p \in U32Samples,
        d \in {125000, 2147483647}, a \in {125000, 2147483647}}

PathResults ==
    {[max_cycles |-> m, cycle_laps |-> l] :
        m \in Cycles,
        l \in {x \in LapLists(MaxPathLaps) : NonDecreasing(x)}}

InitTask ==
    /\ pc = "create_task"
    /\ args \in {[symex_result |-> r, task |-> t] :
                    r \in {x \in PathResults :
                              \A i \in 1..Len(x.cycle_laps) :
                                  usize_le(x.cycle_laps[i][1], x.max_cycles)},
                    t \in InputTasks}
    /\ ret = <<>>
    /\ stdout = <<>>

CreateTask ==
    /\ pc = "create_task"
    /\ ret' = Returned(create_task(args.symex_result, args.task))
    /\ pc' = "done"
    /\ UNCHANGED <<args, stdout>>

NextTask == CreateTask

SpecTask == InitTask /\ [][NextTask]_vars

\* C8: create_task copies name, priority, deadline and inter-arrival
\* unchanged, and the trace root has the task name and spans 0..max_cycles.
C8_CreateTaskCopiesFields ==
    pc = "done" =>
        /\ ret.value.id = args.task.name
        /\ ret.value.prio = args.task.priority
        /\ ret.value.deadline = args.task.deadline
        /\ ret.value.inter_arrival = args.task.interarival
        /\ ret.value.trace.id = args.task.name
        /\ ret.value.trace.start = 0
        /\ from_u32(ret.value.trace.end) = args.symex_result.max_cycles

(***************************************************************************)
(* get_all_sets, main.rs 327-345.  tasks is a sequence of sequences of     *)
(* Task.  get_all_sets_loop is the for-loop of lines 336-342 from the k-th *)
(* alternative of tasks[0] on, with `ret` so far in acc.  With no task at  *)
(* all, line 336 indexes tasks[0] out of bounds and panics.                *)
(***************************************************************************)
RECURSIVE get_all_sets(_)
RECURSIVE get_all_sets_loop(_, _, _)
RECURSIVE get_all_sets_loop_skip_last(_, _, _)
RECURSIVE get_all_sets_loop_insert_front(_, _, _)

\* get_all_sets_loop leaving out the last alternative of tasks[0].
get_all_sets_loop_skip_last(tasks, k, acc) ==
    IF k >= Len(tasks[1]) THEN Returned(acc)
    ELSE LET r == get_all_sets(Tail(tasks))
         IN  IF r.outcome = "panicked" THEN Panicked
             ELSE get_all_sets_loop_skip_last(tasks, k + 1,
                      acc \o [j \in 1..Len(r.value) |->
                                  Append(r.value[j], tasks[1][k])])

\* get_all_sets_loop putting t in front of each combination (ta.insert(0, t)).
get_all_sets_loop_insert_front(tasks, k, acc) ==
    IF k > Len(tasks[1]) THEN Returned(acc)
    ELSE LET r == get_all_sets(Tail(tasks))
         IN  IF r.outcome = "panicked" THEN Panicked
             ELSE get_all_sets_loop_insert_front(tasks, k + 1,
                      acc \o [j \in 1..Len(r.value) |->
                                  <<tasks[1][k]>> \o r.value[j]])

get_all_sets_loop(tasks, k, acc) ==
    IF k > Len(tasks[1]) THEN Returned(acc)
    ELSE LET r == get_all_sets(Tail(tasks))
         IN  IF r.outcome = "panicked" THEN Panicked
             ELSE get_all_sets_loop(tasks, k + 1,
                      acc \o [j \in 1..Len(r.value) |->
                                  Append(r.value[j], tasks[1][k])])

get_all_sets(tasks) ==
    IF Len(tasks) = 1
    THEN Returned([k \in 1..Len(tasks[1]) |-> <<tasks[1][k]>>])
    ELSE IF Len(tasks) = 0 THEN Panicked
    ELSE get_all_sets_loop(tasks, 1, <<>>)

\* `expected` of main.rs 251-254: the product of the alternative counts.
RECURSIVE expected(_)

expected(tasks) ==
    IF tasks = <<>> THEN 1 ELSE Len(tasks[1]) * expected(Tail(tasks))

(***************************************************************************)
(* The `tasks` vector main builds in lines 239-249: for each of the first  *)
(* n entries of get_task_list, one create_task record per path result of   *)
(* analyze_tasks.  The j-th path of a task ends at cycle j.                *)
(***************************************************************************)
MaxTasks == 3

MaxPaths == 3

tasks_of_task(i, k) ==
    [j \in 1..k |-> create_task([max_cycles |-> <<0, j>>, cycle_laps |-> <<>>],
                                get_task_list[i])]

TaskVectors ==
    UNION {{[i \in 1..n |-> tasks_of_task(i, ks[i])] :
                ks \in [1..n -> 0..MaxPaths]} :
           n \in 0..MaxTasks}

InitSets ==
    /\ pc = "expected"
    /\ args \in {[tasks |-> t, expected |-> 1] : t \in TaskVectors}
    /\ ret = <<>>
    /\ stdout = <<>>

Expected ==
    /\ pc = "expected"
    /\ args' = [args EXCEPT !.expected = expected(args.tasks)]
    /\ pc' = "get_all_sets"
    /\ UNCHANGED <<ret, stdout>>

GetAllSets ==
    /\ pc = "get_all_sets"
    /\ ret' = get_all_sets(args.tasks)
    /\ pc' = IF ret'.outcome = "returned" THEN "done" ELSE "panicked"
    /\ UNCHANGED <<args, stdout>>

NextSets == Expected \/ GetAllSets

SpecSets == InitSets /\ [][NextSets]_vars

\* The records of input task i.
Alternatives(i) == {args.tasks[i][k] : k \in 1..Len(args.tasks[i])}

\* C1: for n >= 1 tasks with k_i >= 0 alternatives, get_all_sets returns
\* exactly k_1 * ... * k_n combinations, pairwise different, each of length n
\* and each holding exactly one record of every input task.
C1_CartesianProduct ==
    (pc \in {"done", "panicked"} /\ Len(args.tasks) >= 1) =>
        /\ ret.outcome = "returned"
        /\ Len(ret.value) = args.expected
        /\ \A a, b \in 1..Len(ret.value) : a # b => ret.value[a] # ret.value[b]
        /\ \A c \in 1..Len(ret.value) :
              /\ Len(ret.value[c]) = Len(args.tasks)
              /\ \A i \in 1..Len(args.tasks) :
                    Cardinality({j \in 1..Len(ret.value[c]) :
                                    ret.value[c][j] \in Alternatives(i)}) = 1

\* C1 witness: three tasks with 2, 3 and 2 alternatives gave 12 combinations.
C1_Witness ==
    /\ pc = "done"
    /\ Len(args.tasks) = 3
    /\ Len(args.tasks[1]) = 2 /\ Len(args.tasks[2]) = 3 /\ Len(args.tasks[3]) = 2
    /\ Len(ret.value) = 12

\* C10: position j (0-based) of every combination holds an alternative of
\* input task n-1-j, so all combinations have one length and one task order.
C10_ReverseTaskOrder ==
    (pc \in {"done", "panicked"} /\ Len(args.tasks) >= 1) =>
        /\ ret.outcome = "returned"
        /\ \A c \in 1..Len(ret.value) :
              /\ Len(ret.value[c]) = Len(args.tasks)
              /\ \A j \in 0..(Len(args.tasks) - 1) :
                    ret.value[c][j + 1] \in Alternatives(Len(args.tasks) - j)

\* C10 witness: three tasks, each with alternatives, were combined and the
\* first position of a combination holds a record of the last task.
C10_Witness ==
    /\ pc = "done"
    /\ Len(args.tasks) = 3
    /\ Len(ret.value) >= 2
    /\ ret.value[1][1].id = get_task_list[3].name
    /\ ret.value[1][3].id = get_task_list[1].name

\* C6: with no task at all, or with a task that has no alternative,
\* get_all_sets ends in an error and never returns a list normally.
C6_EmptySpaceIsReported ==
    (/\ pc \in {"done", "panicked"}
     /\ \/ Len(args.tasks) = 0
        \/ \E i \in 1..Len(args.tasks) : Len(args.tasks[i]) = 0)
    => ret.outcome # "returned"

(***************************************************************************)
(* find_worst, main.rs 304-325, over TasksResult values: sequences of      *)
(* TaskResult records [task, response_time, wcet, blocking, interference]. *)
(* An Option is <<>> for None and <<v>> for Some(v); Rust orders None      *)
(* below every Some.                                                       *)
(***************************************************************************)
None == <<>>

Some(v) == <<v>>

\* The comparison of line 312 written as <=: a later equal response time
\* replaces the current worst.
opt_le(a, b) == a = None \/ (b # None /\ a[1] <= b[1])

\* a < b on Option<u32>, the comparison of line 312.
opt_lt(a, b) == b # None /\ (a = None \/ a[1] < b[1])

cheap_clone(input) ==
    [task |-> input.task,
     response_time |-> input.response_time,
     wcet |-> input.wcet,
     blocking |-> input.blocking,
     interference |-> input.interference]

\* The loop of lines 309-320 for slot i from result set c on; task.0[i]
\* panics when result set c has no slot i.
RECURSIVE find_worst_slot(_, _, _, _)

find_worst_slot(list_of_task_results, i, c, current_worst) ==
    IF c > Len(list_of_task_results) THEN Returned(current_worst)
    ELSE IF i > Len(list_of_task_results[c]) THEN Panicked
    ELSE IF current_worst = None
    THEN find_worst_slot(list_of_task_results, i, c + 1,
                         Some(cheap_clone(list_of_task_results[c][i])))
    ELSE IF opt_lt(current_worst[1].response_time,
                   list_of_task_results[c][i].response_time)
    THEN find_worst_slot(list_of_task_results, i, c + 1,
                         Some(cheap_clone(list_of_task_results[c][i])))
    ELSE find_worst_slot(list_of_task_results, i, c + 1, current_worst)

\* The loop of lines 307-322 from slot i on.
RECURSIVE find_worst_loop(_, _, _)

find_worst_loop(list_of_task_results, i, worst_by_response_time) ==
    IF i > Len(list_of_task_results[1]) THEN Returned(worst_by_response_time)
    ELSE LET current_worst == find_worst_slot(list_of_task_results, i, 1, None)
         IN  IF current_worst.outcome = "panicked" \/ current_worst.value = None
             THEN Panicked
             ELSE find_worst_loop(list_of_task_results, i + 1,
                      Append(worst_by_response_time, current_worst.value[1]))

\* list_of_task_results[0] of line 307 panics on an empty list.
find_worst(list_of_task_results) ==
    IF Len(list_of_task_results) = 0 THEN Panicked
    ELSE find_worst_loop(list_of_task_results, 1, <<>>)

\* The report loop of main.rs 283-290 from result k on: one printed line per
\* result; response_time.unwrap() of line 284 panics on None, after the lines
\* printed so far.
RECURSIVE report(_, _, _)

report(worst_result, k, printed) ==
    IF k > Len(worst_result) THEN [outcome |-> "returned", value |-> printed]
    ELSE IF worst_result[k].response_time = None
    THEN [outcome |-> "panicked", value |-> printed]
    ELSE report(worst_result, k + 1,
             Append(printed,
                 [task |-> worst_result[k].task.id,
                  response_time |-> worst_result[k].response_time[1],
                  deadline |-> worst_result[k].task.deadline,
                  verdict |-> IF worst_result[k].response_time[1]
                                     <= worst_result[k].task.deadline
                              THEN "[SUCCESS]" ELSE "[FAIL]"]))

(***************************************************************************)
(* The result lists find_worst is run on: up to MaxCombos result sets, as  *)
(* Tasks::response_time gives one per combination, over the two tasks of   *)
(* the end-to-end scenario (A with deadline 100, B with deadline 90).  The *)
(* task of result set c is the record of path c.                           *)
(***************************************************************************)
MaxCombos == 3

ScenarioTasks ==
    << [name |-> "A", interrupt |-> "TIMER_IRQ_0", priority |-> 1,
        deadline |-> 100, interarival |-> 1000],
       [name |-> "B", interrupt |-> "TIMER_IRQ_1", priority |-> 2,
        deadline |-> 90, interarival |-> 1000] >>

ResponseTimes == {None, Some(80), Some(100), Some(130)}

TaskResultOf(i, c, rt) ==
    [task |-> create_task([max_cycles |-> <<0, c>>, cycle_laps |-> <<>>],
                          ScenarioTasks[i]),
     response_time |-> rt,
     wcet |-> c,
     blocking |-> 0,
     interference |-> 0]

\* The result sets a combination c can give, of every length up to the
\* number of scenario tasks.
TasksResults(c) ==
    UNION {{[i \in 1..n |-> TaskResultOf(i, c, rts[i])] :
                rts \in [1..n -> ResponseTimes]} :
           n \in 0..Len(ScenarioTasks)}

RECURSIVE ResultLists(_)

ResultLists(m) ==
    IF m = 0 THEN {<<>>}
    ELSE LET shorter == ResultLists(m - 1)
         IN  shorter \cup
             {Append(l, r) : l \in {x \in shorter : Len(x) = m - 1},
                             r \in TasksResults(m)}

InitWorst ==
    /\ pc = "find_worst"
    /\ args \in {[list_of_task_results |-> l] : l \in ResultLists(MaxCombos)}
    /\ ret = <<>>
    /\ stdout = <<>>

FindWorst ==
    /\ pc = "find_worst"
    /\ ret' = find_worst(args.list_of_task_results)
    /\ pc' = IF ret'.outcome = "returned" THEN "report" ELSE "panicked"
    /\ UNCHANGED <<args, stdout>>

Report ==
    /\ pc = "report"
    /\ stdout' = report(ret.value, 1, <<>>).value
    /\ pc' = IF report(ret.value, 1, <<>>).outcome = "returned"
             THEN "done" ELSE "panicked"
    /\ UNCHANGED <<args, ret>>

NextWorst == FindWorst \/ Report

SpecWorst == InitWorst /\ [][NextWorst]_vars

(***************************************************************************)
(* Properties of find_worst and of the report.                             *)
(***************************************************************************)
AfterFindWorst == pc \in {"report", "done", "panicked"}

\* All result sets have the length of the first one.
SameShape(l) ==
    Len(l) >= 1 /\ \A c \in 1..Len(l) : Len(l[c]) = Len(l[1])

\* Every result carries a response time.
AllSet(l) ==
    \A c \in 1..Len(l) : \A i \in 1..Len(l[c]) : l[c][i].response_time # None

\* The first result set whose response time at slot i is the greatest.
FirstMax(l, i) ==
    Min({c \in 1..Len(l) :
            \A d \in 1..Len(l) : l[d][i].response_time[1] <= l[c][i].response_time[1]})

\* C2: on a non-empty list of result sets of one length, all with a response
\* time, find_worst returns for every slot the result of the first
\* combination that attains the slot's maximum response time; the selected
\* time is >= every combination's, and the report prints that maximum only.
C2_FirstMaximumSelected ==
    LET l == args.list_of_task_results
    IN  (AfterFindWorst /\ SameShape(l) /\ AllSet(l)) =>
            /\ ret.outcome = "returned"
            /\ Len(ret.value) = Len(l[1])
            /\ \A i \in 1..Len(l[1]) :
                  /\ ret.value[i] = l[FirstMax(l, i)][i]
                  /\ \A c \in 1..Len(l) :
                        l[c][i].response_time[1] <= ret.value[i].response_time[1]
            /\ pc # "panicked"
            /\ pc = "done" =>
                  /\ Len(stdout) = Len(l[1])
                  /\ \A i \in 1..Len(l[1]) :
                        stdout[i].response_time
                            = l[FirstMax(l, i)][i].response_time[1]

\* C2 witness: the end-to-end scenario with a tie: A at 100 in all three
\* combinations, B at 80, 130 and 130; the report shows A 100 from the first
\* combination and B 130 from the second, and B fails its deadline.
C2_Witness ==
    LET l == args.list_of_task_results
    IN  /\ pc = "done"
        /\ Len(l) = 3
        /\ \A c \in 1..3 : Len(l[c]) = 2 /\ l[c][1].response_time = Some(100)
        /\ l[1][2].response_time = Some(80)
        /\ l[2][2].response_time = Some(130)
        /\ l[3][2].response_time = Some(130)
        /\ ret.value = <<l[1][1], l[2][2]>>
        /\ l[2][2] # l[3][2]
        /\ stdout[1].verdict = "[SUCCESS]"
        /\ stdout[2].response_time = 130
        /\ stdout[2].verdict = "[FAIL]"

\* C5: when some combination has no response time at slot i, find_worst
\* keeps the slot unset instead of another combination's set time, and the
\* report prints no [SUCCESS] for that task.
C5_UnsetResponseTimeSurfaces ==
    LET l == args.list_of_task_results
    IN  (AfterFindWorst /\ SameShape(l)) =>
            \A i \in 1..Len(l[1]) :
                (\E c \in 1..Len(l) : l[c][i].response_time = None) =>
                    /\ ret.outcome = "returned" => ret.value[i].response_time = None
                    /\ \A k \in 1..Len(stdout) :
                          stdout[k].task = l[1][i].task.id
                              => stdout[k].verdict # "[SUCCESS]"

\* C7: find_worst rejects every list whose result sets differ in length,
\* whether a later set is shorter or longer than the first.
C7_ShapeMismatchIsRejected ==
    LET l == args.list_of_task_results
    IN  (AfterFindWorst /\ Len(l) >= 1 /\ ~SameShape(l)) => ret.outcome # "returned"

\* The part of C7 the code does enforce: a later result set shorter than the
\* first one ends find_worst in a panic.
ShorterSetPanics ==
    LET l == args.list_of_task_results
    IN  (AfterFindWorst /\ Len(l) >= 1 /\ \E c \in 1..Len(l) : Len(l[c]) < Len(l[1]))
            => ret.outcome = "panicked"

====
